---- MODULE Spec2Model ----
(***************************************************************************)
(* Model of firewall_port_tester_py36v1.py: the task generator, the        *)
(* asyncio worker pool of run_checks, the TCP connect probe, the UDP       *)
(* best-effort probe run on a thread pool, and the source-address helper.  *)
(*                                                                         *)
(* The event loop is single threaded: a coroutine runs from one await to   *)
(* the next without interleaving, so each action below is one such         *)
(* stretch of code.  udp_probe_sync runs on a pool thread and is split at  *)
(* its blocking recv.  The network (resolver, connect, recv, ...) is the   *)
(* environment: every call that can fail chooses its outcome with \E.      *)
(***************************************************************************)
EXTENDS Integers, Sequences, FiniteSets, TLC

\* ------------------------------------------------------------------ bounds
MaxHosts == 2
MaxPorts == 2
MaxTasks == 4
MaxConcurrency == 2
MaxFaults == 1
MaxPoolExtra == 1
MaxSpecLen == 4
Tolerance == 1

\* ------------------------------------------------------- program constants
UdpMaxWorkers == 100
\* --timeout, in ticks of the clock the model measures elapsed with.
Timeout == 2

\* ------------------------------------------------------------------ values
Hosts == {"alpha", "beta"}
PortValues == 1..MaxPorts
Protos == {"tcp", "udp", "both"}
NoBind == ""
BindIps == {NoBind, "10.9.9.9"}
DefaultLocal == "198.51.100.7"
Unknown == "unknown"
Addr(h) == IF h = "alpha" THEN "192.0.2.1" ELSE "192.0.2.2"
HostAt(i) == IF i % 2 = 1 THEN "alpha" ELSE "beta"

Min(a, b) == IF a < b THEN a ELSE b
Max(a, b) == IF a > b THEN a ELSE b
Range(n) == 1..n

SeqsUpTo(S, n) == UNION {[1..k -> S] : k \in 0..n}
NoDup(s) == \A i, j \in DOMAIN s : i # j => s[i] # s[j]

VARIABLES
    portspec,       \* main: args.ports, the --ports string, as its characters
    hosts,          \* main: the validated host list
    ports,          \* main: parse_ports' result (unique ports)
    proto,          \* --proto
    concurrency,    \* --concurrency
    bind_ip,        \* --bind ("" when absent)
    phase,          \* "main" | "gather" | "returned" | "raised"
    tasks_tuples,   \* run_checks: make_tasks' result
    q,              \* run_checks: the asyncio.Queue, as indexes into tasks_tuples
    results,        \* run_checks: the result list
    nworkers,       \* run_checks: number of worker coroutines created
    pc,             \* per worker: where the coroutine (or its pool thread) is
    cur,            \* per worker: index of the task it holds (0: none)
    probe,          \* per worker: locals of the probe in progress
    rsock,          \* per worker: the probe's own socket
    hsock,          \* per worker: the socket of local_ip_for_target
    fut,            \* per worker: outcome of the run_in_executor future
    faults,         \* environment: calls that have not gone the nominal way
    budget,         \* environment: how many such calls this run may meet
    pool            \* wide runs only: how many workers are at each place

vars == <<portspec, hosts, ports, proto, concurrency, bind_ip, phase, tasks_tuples, q,
          results, nworkers, pc, cur, probe, rsock, hsock, fut, faults, budget,
          pool>>

\* ------------------------------------------------------------ environment
\* Outcomes the network can give to one call.  "exception" is a failure
\* that is no OSError; the others are the cases tcp_check tells apart.
ConnOutcomes == {"established", "refused", "timeout", "oserror", "exception"}
RecvOutcomes == {"data", "timeout", "oserror"}
HelperOutcomes == {"ok", "nosock", "fail"}
\* The calls of one probe that can fail.
Calls == {"gethostbyname", "socket", "bind", "connect", "getsockname", "send",
          "recv", "local_ip_for_target"}
Cnt(ok) == IF ok THEN 0 ELSE 1
\* How long a call lasts, in ticks.  gethostbyname blocks with no timeout
\* of the program applied to it: it answers at once or after SlowCall
\* ticks, more than --timeout by any tolerance up to Timeout.  The awaited
\* connect and the blocking recv last Timeout ticks when they time out
\* (wait_for, settimeout) and answer at once otherwise.
SlowCall == 2 * Timeout + 1
ResolveTime(slow) == IF slow THEN SlowCall ELSE 0
WaitTime(outcome) == IF outcome = "timeout" THEN Timeout ELSE 0

\* ---------------------------------------------------------- pure functions
\* A Python str is modelled as the sequence of its characters.
Digits == {"0", "1", "2", "3", "4", "5", "6", "7", "8", "9"}
DigitValue(c) ==
    CASE c = "0" -> 0 [] c = "1" -> 1 [] c = "2" -> 2 [] c = "3" -> 3
      [] c = "4" -> 4 [] c = "5" -> 5 [] c = "6" -> 6 [] c = "7" -> 7
      [] c = "8" -> 8 [] c = "9" -> 9
DigitChar(d) == CHOOSE c \in Digits : DigitValue(c) = d

\* str(n) for n >= 0, and ','.join(str(p) for p in ps).
RECURSIVE Str(_)
Str(n) == IF n < 10 THEN <<DigitChar(n)>> ELSE Str(n \div 10) \o <<DigitChar(n % 10)>>
RECURSIVE Join(_)
Join(ps) ==
    IF ps = <<>> THEN <<>>
    ELSE IF Len(ps) = 1 THEN Str(ps[1])
    ELSE Str(ps[1]) \o <<",">> \o Join(Tail(ps))

\* s.split(c): the pieces between the occurrences of c, empty ones kept.
RECURSIVE SplitLoop(_, _, _, _)
SplitLoop(s, c, piece, acc) ==
    IF s = <<>> THEN Append(acc, piece)
    ELSE IF Head(s) = c THEN SplitLoop(Tail(s), c, <<>>, Append(acc, piece))
    ELSE SplitLoop(Tail(s), c, Append(piece, Head(s)), acc)
Split(s, c) == SplitLoop(s, c, <<>>, <<>>)

\* s.split(c, 1) for an s that holds c: what is before the first c and what
\* is after it.
SplitFirst(s, c) ==
    LET k == CHOOSE i \in DOMAIN s : s[i] = c /\ \A j \in 1..(i - 1) : s[j] # c
    IN <<SubSeq(s, 1, k - 1), SubSeq(s, k + 1, Len(s))>>

\* s.strip(): leading and trailing white space removed.
RECURSIVE LStrip(_)
LStrip(s) == IF s # <<>> /\ Head(s) = " " THEN LStrip(Tail(s)) ELSE s
RECURSIVE RStrip(_)
RStrip(s) ==
    IF s # <<>> /\ s[Len(s)] = " " THEN RStrip(SubSeq(s, 1, Len(s) - 1)) ELSE s
Strip(s) == RStrip(LStrip(s))

\* int(s): white space around is ignored, then an optional '-' and one or
\* more digits; anything else raises ValueError (ok = FALSE).
IsDigits(s) == s # <<>> /\ \A i \in DOMAIN s : s[i] \in Digits
RECURSIVE DigitsValue(_)
DigitsValue(s) ==
    IF s = <<>> THEN 0
    ELSE 10 * DigitsValue(SubSeq(s, 1, Len(s) - 1)) + DigitValue(s[Len(s)])
ValueError == [ok |-> FALSE, v |-> 0]
int(s) ==
    LET t == Strip(s)
    IN IF IsDigits(t) THEN [ok |-> TRUE, v |-> DigitsValue(t)]
       ELSE IF t # <<>> /\ Head(t) = "-" /\ IsDigits(Tail(t))
            THEN [ok |-> TRUE, v |-> 0 - DigitsValue(Tail(t))]
       ELSE ValueError

\* Mutant of PyRange: the + 1 of  range(int(a), int(b) + 1)  lost.
PyRangeExclusive(a, b) == [i \in 1..(b - a) |-> a + i - 1]

\* list(range(a, b + 1)): a, a+1, ..., b; empty when b < a.
PyRange(a, b) == [i \in 1..(b - a + 1) |-> a + i - 1]

\* The list comprehension of parse_ports' loop header: the stripped pieces
\* of portspec.split(','), the empty ones dropped.
Parts(spec) ==
    LET pieces == Split(spec, ",")
    IN SelectSeq([i \in DOMAIN pieces |-> Strip(pieces[i])], LAMBDA p : p # <<>>)

\* One turn of parse_ports' loop: what the part adds to out, or ValueError.
PartPorts(part) ==
    IF \E i \in DOMAIN part : part[i] = "-"
    THEN LET ab == SplitFirst(part, "-")
             a == int(ab[1])
             b == int(ab[2])
         IN IF a.ok /\ b.ok THEN [ok |-> TRUE, v |-> PyRange(a.v, b.v)]
            ELSE [ok |-> FALSE, v |-> <<>>]
    ELSE LET n == int(part)
         IN IF n.ok THEN [ok |-> TRUE, v |-> <<n.v>>] ELSE [ok |-> FALSE, v |-> <<>>]

\* uniq = [p for p in out if not (p in seen or seen.add(p))]: p is kept
\* when no earlier element of out equals it.
Uniq(out) ==
    LET numbered == [i \in DOMAIN out |-> <<i, out[i]>>]
        kept == SelectSeq(numbered,
                          LAMBDA e : \A j \in 1..(e[1] - 1) : out[j] # e[2])
    IN [i \in DOMAIN kept |-> kept[i][2]]

\* parse_ports: the loop over the parts, then uniq.
RECURSIVE ParseLoop(_, _)
ParseLoop(parts, out) ==
    IF parts = <<>> THEN [ok |-> TRUE, v |-> out]
    ELSE LET r == PartPorts(Head(parts))
         IN IF r.ok THEN ParseLoop(Tail(parts), out \o r.v)
            ELSE [ok |-> FALSE, v |-> <<>>]
parse_ports(spec) ==
    LET r == ParseLoop(Parts(spec), <<>>)
    IN IF r.ok THEN [ok |-> TRUE, v |-> Uniq(r.v)] ELSE r

\* resolve_host: gethostbyname's answer, or the host string itself.
resolve_host(host, dns_ok) == IF dns_ok THEN Addr(host) ELSE host

\* local_ip_for_target: the local address of a UDP socket connected to
\* (target, 53), or 'unknown'.  s.close() is reached only when connect and
\* getsockname both succeed; otherwise the socket object is dropped without
\* close(), and whether the runtime has finalized it when the probe returns
\* is not fixed by the language (gc).
local_ip_for_target(outcome, gc) ==
    CASE outcome = "ok"     -> [ip |-> DefaultLocal, hs |-> "closed"]
      [] outcome = "nosock" -> [ip |-> Unknown, hs |-> "none"]
      [] OTHER              -> [ip |-> Unknown, hs |-> IF gc THEN "finalized" ELSE "open"]

\* The expression  bind_ip or local_ip_for_target(dst_ip).
SrcFallback(bind, outcome, gc) ==
    IF bind # NoBind
    THEN [src |-> bind, via |-> "bind", hs |-> "none"]
    ELSE LET r == local_ip_for_target(outcome, gc)
         IN [src |-> r.ip, via |-> IF r.ip = Unknown THEN "unknown" ELSE "heuristic",
             hs |-> r.hs]

\* The local endpoint getsockname reports: the bound address when bind
\* succeeded, else the address the OS chose.
SockName(bind, bound) == IF bound THEN bind ELSE DefaultLocal

\* What became of  if bind_ip: try: bind(...) except: pass : not attempted,
\* done, or failed and passed over.
BindState(bind, sock_ok, bind_ok) ==
    IF bind = NoBind \/ ~sock_ok THEN "none"
    ELSE IF bind_ok THEN "bound" ELSE "failed"

\* Mutant of TcpStatus: the OSError clause placed before the
\* ConnectionRefusedError clause, which it then shadows.
TcpStatusOSErrorFirst(conn) ==
    CASE conn = "established" -> "open"
      [] conn = "timeout"     -> "timeout"
      [] conn = "refused"     -> "error"
      [] OTHER                -> "error"

\* tcp_check's classification: the return after the await, then the except
\* clauses in their order.
TcpStatus(conn) ==
    CASE conn = "established" -> "open"
      [] conn = "timeout"     -> "timeout"
      [] conn = "refused"     -> "closed"
      [] conn = "oserror"     -> "error"
      [] OTHER                -> "error"

\* udp_probe_sync's classification of the recv.
UdpStatus(r) ==
    CASE r = "data"    -> "open"
      [] r = "timeout" -> "no-response"
      [] OTHER         -> "error"

\* Mutant of TaskAppends: the two ifs exchanged, UDP appended before TCP.
TaskAppendsUdpFirst(h, p, pr, acc) ==
    LET a1 == IF pr \in {"udp", "both"} THEN Append(acc, <<h, p, "udp">>) ELSE acc
    IN IF pr \in {"tcp", "both"} THEN Append(a1, <<h, p, "tcp">>) ELSE a1

\* make_tasks: the body of the inner loop, the inner loop, the outer loop.
TaskAppends(h, p, pr, acc) ==
    LET a1 == IF pr \in {"tcp", "both"} THEN Append(acc, <<h, p, "tcp">>) ELSE acc
    IN IF pr \in {"udp", "both"} THEN Append(a1, <<h, p, "udp">>) ELSE a1

RECURSIVE PortLoop(_, _, _, _)
PortLoop(h, ps, pr, acc) ==
    IF ps = <<>> THEN acc
    ELSE PortLoop(h, Tail(ps), pr, TaskAppends(h, Head(ps), pr, acc))

RECURSIVE HostLoop(_, _, _, _)
HostLoop(hs, ps, pr, acc) ==
    IF hs = <<>> THEN acc
    ELSE HostLoop(Tail(hs), ps, pr, PortLoop(Head(hs), ps, pr, acc))

make_tasks(hs, ps, pr) == HostLoop(hs, ps, pr, <<>>)

\* Mutant of NumWorkers: a worker is started whatever the concurrency.
NumWorkersAtLeastOne(c, n) == Max(1, Min(c, Max(1, n)))

\* Mutant of NumWorkers: the max(1, ...) around len(tasks_tuples) lost.
NumWorkersNoFloor(c, n) == Max(0, Min(c, n))

\* Mutant of NumWorkers: one worker per task, the clamp to concurrency lost.
NumWorkersPerTask(c, n) == IF c < 1 THEN 0 ELSE Max(1, n)

\* range(min(concurrency, max(1, len(tasks_tuples)))): the number of workers.
NumWorkers(c, n) == Max(0, Min(c, Max(1, n)))

\* The thread pool starts a work item only on one of its max_workers
\* threads: `running` of them are busy.
PoolHasFreeThread(running) == running < UdpMaxWorkers

\* ------------------------------------------------------------------- state
NoPool == [workers |-> 0, left |-> 0, ready |-> 0, queued |-> 0, running |-> 0,
           finished |-> 0, done |-> 0]
NoProbe == [dst |-> "", dns |-> "", src |-> "", via |-> "", bound |-> FALSE,
            bind |-> "none", name |-> "skipped", t |-> 0]
NoFut == [kind |-> "none", src |-> "", via |-> "", dst |-> "", dns |-> "",
          status |-> "", cause |-> "", bind |-> "none", name |-> "skipped",
          elapsed |-> 0]
\* The future of a udp_probe_sync that raised; dst, dns and bind are what
\* the frame held when it did, cause is the call that raised.
ExcFut(dst, dns, bind, cause) ==
    [kind |-> "exc", src |-> "", via |-> "", dst |-> dst, dns |-> dns,
     status |-> "", cause |-> cause, bind |-> bind, name |-> "skipped",
     elapsed |-> 0]
Dns(dns_ok) == IF dns_ok THEN "ok" ELSE "fail"

Workers == 1..nworkers
LoopRunning == phase = "gather"
\* The event loop runs one callback at a time, in the order they became
\* ready.  A worker that is "ready" is either one gather has just created
\* (they take their first step in creation order, before the loop looks at
\* any I/O) or the one the loop is running now, between two awaits.
Turn(w) == pc[w] = "ready" /\ \A v \in Workers : v < w => pc[v] # "ready"
\* Mutant of udp_check_thread: udp_probe_sync called in the coroutine.
udp_check_inline == "loop"

\* udp_check: run_in_executor runs udp_probe_sync on a thread of the pool,
\* not on the thread of the event loop.
udp_check_thread == "pool"
\* The loop is between callbacks: it can take up a completed await.  Its
\* thread is not inside a blocking call.
LoopIdle ==
    /\ LoopRunning
    /\ \A v \in Workers : pc[v] # "ready"
    /\ \A v \in Workers : pc[v] \in {"udp_queued", "udp_recv"} => udp_check_thread = "pool"
\* The index in tasks_tuples of the item get_nowait would return.
NextIndex == Len(tasks_tuples) - Len(q) + 1

\* The dict worker appends.  task, via, cause, dns, bind and name are
\* history fields: the index of the task, where src came from, what the
\* network answered to the connect or the recv, what the resolver answered,
\* what became of the bind, and whether getsockname was called ("skipped"
\* when it was not) and answered.
Record(i, src, via, dst, status, cause, dns, bind, name, elapsed) ==
    [task |-> i, src |-> src, dst |-> dst, port |-> tasks_tuples[i][2],
     proto |-> tasks_tuples[i][3], status |-> status, elapsed |-> elapsed,
     via |-> via, cause |-> cause, dns |-> dns, bind |-> bind, name |-> name]

\* Mutant of AppendRecord: results.insert(0, ...) for results.append(...).
InsertRecord(rs, r) == <<r>> \o rs

\* results.append({...})
AppendRecord(rs, r) == Append(rs, r)

\* Mutant of get_nowait: the head of the queue is read and left there.
get_nowait_peek(queue) == [item |-> Head(queue), rest |-> queue]

\* task_queue.get_nowait() on a queue that is not empty: the item it
\* returns and the queue it leaves.
get_nowait(queue) == [item |-> Head(queue), rest |-> Tail(queue)]

\* Mutant of ReturnedNormally: gather(..., return_exceptions=True), for
\* which a worker that raised counts as finished.
ReturnedOrRaised(s) == s \in {"done", "raised"}

\* What gather waits for in each worker before it gives its result.
ReturnedNormally(s) == s = "done"

TcpInFlight == Cardinality({w \in Workers : pc[w] = "tcp_connect"})
UdpInFlight == Cardinality({w \in Workers : pc[w] = "udp_recv"})

\* The state before main runs run_checks, whatever the arguments.
Fresh ==
    /\ tasks_tuples = <<>>
    /\ q = <<>>
    /\ results = <<>>
    /\ nworkers = 0
    /\ pc = <<>>
    /\ cur = <<>>
    /\ probe = <<>>
    /\ rsock = <<>>
    /\ hsock = <<>>
    /\ fut = <<>>
    /\ faults = 0
    /\ pool = NoPool

Before == Fresh /\ phase = "main"

\* Runs of the worker pool: the first nh hosts, the ports 1..np, at most
\* MaxTasks tasks, and a network that leaves the nominal way (the resolver
\* answers, sockets open, bind, connect, getsockname and send succeed, a
\* reply arrives) at most MaxFaults times.
Init ==
    /\ \E nh \in 0..MaxHosts, np \in 0..MaxPorts :
         /\ hosts = [i \in 1..nh |-> HostAt(i)]
         /\ ports = [i \in 1..np |-> i]
    /\ proto \in Protos
    /\ portspec = Join(ports)
    /\ Len(make_tasks(hosts, ports, proto)) <= MaxTasks
    /\ concurrency \in -1..MaxConcurrency
    /\ bind_ip \in BindIps
    /\ budget = MaxFaults
    /\ Before

\* Runs of one probe: one task, one worker, and a network free to fail
\* every call of the probe.
InitProbe ==
    /\ \E h \in Hosts : hosts = <<h>>
    /\ \E p \in PortValues : ports = <<p>>
    /\ portspec = Join(ports)
    /\ proto \in {"tcp", "udp"}
    /\ concurrency = 1
    /\ bind_ip \in BindIps
    /\ budget = Cardinality(Calls)
    /\ Before

\* Runs that start no worker: any host list (repetitions included), any
\* list of distinct ports, concurrency <= 0.
InitTasks ==
    /\ hosts \in SeqsUpTo(Hosts, MaxHosts)
    /\ ports \in {s \in SeqsUpTo(PortValues, MaxPorts) : NoDup(s)}
    /\ portspec = Join(ports)
    /\ proto \in Protos
    /\ concurrency \in -1..0
    /\ bind_ip \in BindIps
    /\ budget = 0
    /\ Before

\* main + run_checks up to the await of gather: build the tasks, fill the
\* queue, create the workers.
RunChecks ==
    /\ phase = "main"
    /\ LET ts == make_tasks(hosts, ports, proto)
           n == NumWorkers(concurrency, Len(ts))
       IN /\ tasks_tuples' = ts
          /\ q' = ts
          /\ nworkers' = n
          /\ pc' = [w \in 1..n |-> "ready"]
          /\ cur' = [w \in 1..n |-> 0]
          /\ probe' = [w \in 1..n |-> NoProbe]
          /\ rsock' = [w \in 1..n |-> "none"]
          /\ hsock' = [w \in 1..n |-> "none"]
          /\ fut' = [w \in 1..n |-> NoFut]
    /\ results' = <<>>
    /\ phase' = "gather"
    /\ UNCHANGED <<portspec, hosts, ports, proto, concurrency, bind_ip, faults, budget, pool>>

\* worker: get_nowait raises QueueEmpty, the worker returns.
WorkerExit(w) ==
    /\ LoopRunning
    /\ Turn(w)
    /\ q = <<>>
    /\ pc' = [pc EXCEPT ![w] = "done"]
    /\ UNCHANGED <<portspec, hosts, ports, proto, concurrency, bind_ip, phase, tasks_tuples,
                   q, results, nworkers, cur, probe, rsock, hsock, fut, faults, budget, pool>>

\* worker claims a TCP task and runs tcp_check up to the await of
\* sock_connect: resolve, socket(), setblocking, bind.  When socket() fails
\* there is nothing to await: the OSError clause returns at once and the
\* worker appends the record in the same stretch.
WorkerClaimTcp(w) ==
    /\ LoopRunning
    /\ Turn(w)
    /\ q # <<>>
    /\ get_nowait(q).item[3] = "tcp"
    /\ \E dns_ok, dns_slow, sock_ok, bind_ok, gc \in BOOLEAN, h \in HelperOutcomes :
        LET i == NextIndex
            dst == resolve_host(get_nowait(q).item[1], dns_ok)
            t == ResolveTime(dns_slow)
            fb == SrcFallback(bind_ip, h, gc)
            n == Cnt(dns_ok) + Cnt(~dns_slow) + Cnt(sock_ok) + Cnt(bind_ok)
                 + Cnt(h = "ok")
        IN /\ (bind_ip = NoBind \/ ~sock_ok) => bind_ok
           /\ (sock_ok \/ bind_ip # NoBind) => h = "ok"
           /\ (h # "fail") => gc
           /\ faults + n <= budget
           /\ faults' = faults + n
           /\ q' = get_nowait(q).rest
           /\ IF sock_ok
              THEN /\ pc' = [pc EXCEPT ![w] = "tcp_connect"]
                   /\ cur' = [cur EXCEPT ![w] = i]
                   /\ probe' = [probe EXCEPT ![w] =
                                  [dst |-> dst, dns |-> Dns(dns_ok), src |-> "",
                                   via |-> "", bound |-> bind_ip # NoBind /\ bind_ok,
                                   bind |-> BindState(bind_ip, sock_ok, bind_ok),
                                   name |-> "skipped", t |-> t]]
                   /\ rsock' = [rsock EXCEPT ![w] = "open"]
                   /\ hsock' = [hsock EXCEPT ![w] = "none"]
                   /\ results' = results
              ELSE /\ pc' = pc
                   /\ cur' = [cur EXCEPT ![w] = 0]
                   /\ probe' = [probe EXCEPT ![w] = NoProbe]
                   /\ rsock' = [rsock EXCEPT ![w] = "none"]
                   /\ hsock' = [hsock EXCEPT ![w] = fb.hs]
                   /\ results' = AppendRecord(results,
                                   Record(i, fb.src, fb.via, dst,
                                          TcpStatus("oserror"), "nosocket",
                                          Dns(dns_ok), "none", "skipped", t))
    /\ UNCHANGED <<portspec, hosts, ports, proto, concurrency, bind_ip, phase, tasks_tuples,
                   nworkers, fut, budget, pool>>

\* The await of sock_connect ends: tcp_check classifies, picks src, closes
\* rsock in its finally, and the worker appends the record and calls
\* task_done.
TcpConnectDone(w) ==
    /\ LoopIdle
    /\ pc[w] = "tcp_connect"
    /\ \E conn \in ConnOutcomes, name_ok, gc \in BOOLEAN, h \in HelperOutcomes :
        LET fb == SrcFallback(bind_ip, h, gc)
            direct == conn = "established" /\ name_ok
            src == IF direct THEN SockName(bind_ip, probe[w].bound) ELSE fb.src
            via == IF direct THEN "sockname" ELSE fb.via
            n == Cnt(name_ok) + Cnt(h = "ok") + Cnt(conn = "established")
        IN /\ (conn # "established") => name_ok
           /\ (direct \/ bind_ip # NoBind) => h = "ok"
           /\ (h # "fail") => gc
           /\ faults + n <= budget
           /\ faults' = faults + n
           /\ results' = AppendRecord(results,
                           Record(cur[w], src, via, probe[w].dst, TcpStatus(conn), conn,
                                  probe[w].dns, probe[w].bind,
                                  IF conn # "established" THEN "skipped"
                                  ELSE IF name_ok THEN "ok" ELSE "fail",
                                  probe[w].t + WaitTime(conn)))
           /\ hsock' = [hsock EXCEPT ![w] = IF direct THEN "none" ELSE fb.hs]
    /\ rsock' = [rsock EXCEPT ![w] = "closed"]
    /\ pc' = [pc EXCEPT ![w] = "ready"]
    /\ cur' = [cur EXCEPT ![w] = 0]
    /\ probe' = [probe EXCEPT ![w] = NoProbe]
    /\ UNCHANGED <<portspec, hosts, ports, proto, concurrency, bind_ip, phase, tasks_tuples,
                   q, nworkers, fut, budget, pool>>

\* worker claims a UDP task; udp_check hands udp_probe_sync to the thread
\* pool and the worker awaits the future.
WorkerClaimUdp(w) ==
    /\ LoopRunning
    /\ Turn(w)
    /\ q # <<>>
    /\ get_nowait(q).item[3] = "udp"
    /\ q' = get_nowait(q).rest
    /\ pc' = [pc EXCEPT ![w] = "udp_queued"]
    /\ cur' = [cur EXCEPT ![w] = NextIndex]
    /\ probe' = [probe EXCEPT ![w] = NoProbe]
    /\ rsock' = [rsock EXCEPT ![w] = "none"]
    /\ hsock' = [hsock EXCEPT ![w] = "none"]
    /\ fut' = [fut EXCEPT ![w] = NoFut]
    /\ UNCHANGED <<portspec, hosts, ports, proto, concurrency, bind_ip, phase, tasks_tuples,
                   results, nworkers, faults, budget, pool>>

\* A pool thread (there are at most max_workers of them) takes the work item
\* and runs udp_probe_sync up to the blocking recv: resolve, socket(),
\* settimeout, bind, connect, getsockname, send.  socket() is outside the
\* try; connect and send are inside it but outside any except clause: their
\* failure closes the socket in the finally and leaves the function as an
\* exception, which the future carries to the worker.
UdpThreadStart(w) ==
    /\ pc[w] = "udp_queued"
    /\ PoolHasFreeThread(UdpInFlight)
    /\ \E dns_ok, dns_slow, sock_ok, bind_ok, conn_ok, name_ok, send_ok, gc \in BOOLEAN,
          h \in HelperOutcomes :
        LET dst == resolve_host(tasks_tuples[cur[w]][1], dns_ok)
            bound == bind_ip # NoBind /\ bind_ok
            fb == SrcFallback(bind_ip, h, gc)
            raised == ~sock_ok \/ ~conn_ok \/ ~send_ok
            raiser == IF ~sock_ok THEN "socket"
                      ELSE IF ~conn_ok THEN "connect" ELSE "send"
            n == Cnt(dns_ok) + Cnt(~dns_slow) + Cnt(sock_ok) + Cnt(bind_ok)
                 + Cnt(conn_ok) + Cnt(name_ok) + Cnt(send_ok) + Cnt(h = "ok")
        IN /\ (bind_ip = NoBind \/ ~sock_ok) => bind_ok
           /\ ~sock_ok => conn_ok
           /\ (~sock_ok \/ ~conn_ok) => (name_ok /\ send_ok)
           /\ (name_ok \/ bind_ip # NoBind) => h = "ok"
           /\ (h # "fail") => gc
           /\ faults + n <= budget
           /\ faults' = faults + n
           /\ hsock' = [hsock EXCEPT ![w] = IF name_ok THEN "none" ELSE fb.hs]
           /\ IF raised
              THEN /\ pc' = [pc EXCEPT ![w] = "udp_done"]
                   /\ fut' = [fut EXCEPT ![w] =
                                ExcFut(dst, Dns(dns_ok),
                                       BindState(bind_ip, sock_ok, bind_ok), raiser)]
                   /\ rsock' = [rsock EXCEPT ![w] = IF sock_ok THEN "closed" ELSE "none"]
                   /\ probe' = [probe EXCEPT ![w] = NoProbe]
              ELSE /\ pc' = [pc EXCEPT ![w] = "udp_recv"]
                   /\ fut' = fut
                   /\ rsock' = [rsock EXCEPT ![w] = "open"]
                   /\ probe' = [probe EXCEPT ![w] =
                                  [dst |-> dst, dns |-> Dns(dns_ok),
                                   src |-> IF name_ok THEN SockName(bind_ip, bound)
                                           ELSE fb.src,
                                   via |-> IF name_ok THEN "sockname" ELSE fb.via,
                                   bound |-> bound,
                                   bind |-> BindState(bind_ip, sock_ok, bind_ok),
                                   name |-> IF name_ok THEN "ok" ELSE "fail",
                                   t |-> ResolveTime(dns_slow)]]
    /\ UNCHANGED <<portspec, hosts, ports, proto, concurrency, bind_ip, phase, tasks_tuples,
                   q, results, nworkers, cur, budget, pool>>

\* The blocking recv ends: udp_probe_sync classifies, returns its tuple and
\* closes the socket in the finally; the future holds the tuple.
UdpRecvDone(w) ==
    /\ pc[w] = "udp_recv"
    /\ \E r \in RecvOutcomes :
        /\ faults + Cnt(r = "data") <= budget
        /\ faults' = faults + Cnt(r = "data")
        /\ fut' = [fut EXCEPT ![w] =
                    [kind |-> "ok", src |-> probe[w].src, via |-> probe[w].via,
                     dst |-> probe[w].dst, dns |-> probe[w].dns,
                     status |-> UdpStatus(r), cause |-> r, bind |-> probe[w].bind,
                     name |-> probe[w].name, elapsed |-> probe[w].t + WaitTime(r)]]
    /\ rsock' = [rsock EXCEPT ![w] = "closed"]
    /\ pc' = [pc EXCEPT ![w] = "udp_done"]
    /\ probe' = [probe EXCEPT ![w] = NoProbe]
    /\ UNCHANGED <<portspec, hosts, ports, proto, concurrency, bind_ip, phase, tasks_tuples,
                   q, results, nworkers, cur, hsock, budget, pool>>

\* The worker resumes from  await udp_check(...)  with the tuple: it appends
\* the record and calls task_done.
WorkerResumeUdp(w) ==
    /\ LoopIdle
    /\ pc[w] = "udp_done"
    /\ fut[w].kind = "ok"
    /\ results' = AppendRecord(results,
                    Record(cur[w], fut[w].src, fut[w].via, fut[w].dst,
                           fut[w].status, fut[w].cause, fut[w].dns, fut[w].bind,
                           fut[w].name, fut[w].elapsed))
    /\ pc' = [pc EXCEPT ![w] = "ready"]
    /\ cur' = [cur EXCEPT ![w] = 0]
    /\ fut' = [fut EXCEPT ![w] = NoFut]
    /\ UNCHANGED <<portspec, hosts, ports, proto, concurrency, bind_ip, phase, tasks_tuples,
                   q, nworkers, probe, rsock, hsock, faults, budget, pool>>

\* The worker resumes from  await udp_check(...)  with the exception: nothing
\* in worker catches it, the worker's task ends with that exception.
WorkerRaise(w) ==
    /\ LoopIdle
    /\ pc[w] = "udp_done"
    /\ fut[w].kind = "exc"
    /\ pc' = [pc EXCEPT ![w] = "raised"]
    /\ UNCHANGED <<portspec, hosts, ports, proto, concurrency, bind_ip, phase, tasks_tuples,
                   q, results, nworkers, cur, probe, rsock, hsock, fut, faults, budget, pool>>

\* await asyncio.gather(*workers) ends with every worker returned:
\* run_checks returns results.
GatherReturn ==
    /\ LoopIdle
    /\ \A w \in Workers : ReturnedNormally(pc[w])
    /\ phase' = "returned"
    /\ UNCHANGED <<portspec, hosts, ports, proto, concurrency, bind_ip, tasks_tuples, q,
                   results, nworkers, pc, cur, probe, rsock, hsock, fut, faults, budget, pool>>

\* gather (return_exceptions is False) passes the first exception of a
\* worker to run_checks, which does not catch it, and neither does main:
\* run_until_complete raises and the loop stops with the other workers
\* where they are.
GatherRaise ==
    /\ LoopIdle
    /\ \E w \in Workers : pc[w] = "raised"
    /\ phase' = "raised"
    /\ UNCHANGED <<portspec, hosts, ports, proto, concurrency, bind_ip, tasks_tuples, q,
                   results, nworkers, pc, cur, probe, rsock, hsock, fut, faults, budget, pool>>

Next ==
    \/ RunChecks
    \/ \E w \in Workers : WorkerExit(w)
    \/ \E w \in Workers : WorkerClaimTcp(w)
    \/ \E w \in Workers : TcpConnectDone(w)
    \/ \E w \in Workers : WorkerClaimUdp(w)
    \/ \E w \in Workers : UdpThreadStart(w)
    \/ \E w \in Workers : UdpRecvDone(w)
    \/ \E w \in Workers : WorkerResumeUdp(w)
    \/ \E w \in Workers : WorkerRaise(w)
    \/ GatherReturn
    \/ GatherRaise

Spec == Init /\ [][Next]_vars
SpecProbe == InitProbe /\ [][Next]_vars

NextTasks ==
    \/ RunChecks
    \/ GatherReturn

SpecTasks == InitTasks /\ [][NextTasks]_vars

\* ------------------------------------------------------------- port parsing
\* Runs of main's  ports = parse_ports(args.ports): the --ports strings of
\* at most MaxSpecLen characters over SpecChars, and the examples of the
\* help text and of the documentation.
SpecChars == {"1", "2", ",", "-", " "}
PortSpecExamples ==
    {<<"2", "2", ",", "8", "0", ",", "3", "0", "0", "0", "0", "-",
       "3", "0", "0", "1", "0">>,
     <<"9", ",", "1", "0", "-", "1", "2">>,
     <<"2", ",", "1", "-", "2">>,
     <<"1", "-", "2", ",", "2", "-", "1", ",", " ", "2", "1", " ", ",", "2">>}

InitPorts ==
    /\ portspec \in SeqsUpTo(SpecChars, MaxSpecLen) \cup PortSpecExamples
    /\ hosts = <<"alpha">>
    /\ ports = <<>>
    /\ proto = "tcp"
    /\ concurrency = 1
    /\ bind_ip = NoBind
    /\ budget = 0
    /\ phase = "args"
    /\ Fresh

\* main: ports = parse_ports(args.ports).  A ValueError of int() is caught
\* nowhere: main ends with it.
ParsePorts ==
    /\ phase = "args"
    /\ LET r == parse_ports(portspec)
       IN /\ r.ok
          /\ ports' = r.v
          /\ phase' = "main"
    /\ UNCHANGED <<portspec, hosts, proto, concurrency, bind_ip, tasks_tuples, q,
                   results, nworkers, pc, cur, probe, rsock, hsock, fut, faults,
                   budget, pool>>

ParsePortsRaise ==
    /\ phase = "args"
    /\ ~parse_ports(portspec).ok
    /\ phase' = "ValueError"
    /\ UNCHANGED <<portspec, hosts, ports, proto, concurrency, bind_ip,
                   tasks_tuples, q, results, nworkers, pc, cur, probe, rsock, hsock,
                   fut, faults, budget, pool>>

NextPorts ==
    \/ ParsePorts
    \/ ParsePortsRaise

SpecPorts == InitPorts /\ [][NextPorts]_vars

\* ---------------------------------------------------------------- wide runs
\* Runs with more workers than the thread pool has threads: one host, UDP
\* only, a network that always replies.  The workers are alike and nothing
\* but their number at each place of worker matters to the pool, so these
\* runs keep counts (pool) instead of pc, and no records:
\*   workers   workers created
\*   ready     workers at get_nowait (created, or resumed by the loop)
\*   queued    workers whose udp_probe_sync waits in the pool for a thread
\*   running   workers whose udp_probe_sync runs on a pool thread
\*   finished  workers whose future is done and who are not yet resumed
\*   done      workers that have returned
\*   left      tasks still in the queue
InitWide ==
    /\ hosts = <<"alpha">>
    /\ ports = [i \in 1..(UdpMaxWorkers + MaxPoolExtra) |-> i]
    /\ portspec = <<"1", "-">> \o Str(UdpMaxWorkers + MaxPoolExtra)
    /\ proto = "udp"
    /\ concurrency = UdpMaxWorkers + MaxPoolExtra
    /\ bind_ip = NoBind
    /\ budget = 0
    /\ phase = "wide"
    /\ Fresh

\* len(make_tasks(hs, ps, pr)): one append per pair and protocol.
TaskCount(hs, ps, pr) == Len(hs) * Len(ps) * (IF pr = "both" THEN 2 ELSE 1)

\* run_checks up to the await of gather.
WideRunChecks ==
    /\ phase = "wide"
    /\ LET n == TaskCount(hosts, ports, proto)
       IN pool' = [NoPool EXCEPT !.left = n,
                                 !.workers = NumWorkers(concurrency, n),
                                 !.ready = NumWorkers(concurrency, n)]
    /\ phase' = "wide_gather"
    /\ UNCHANGED <<portspec, hosts, ports, proto, concurrency, bind_ip, tasks_tuples, q,
                   results, nworkers, pc, cur, probe, rsock, hsock, fut, faults,
                   budget>>

WideUnchanged ==
    UNCHANGED <<portspec, hosts, ports, proto, concurrency, bind_ip, phase,
                tasks_tuples, q, results, nworkers, pc, cur, probe, rsock, hsock, fut, faults, budget>>

\* A ready worker finds the queue empty and returns.
WideWorkerExit ==
    /\ phase = "wide_gather"
    /\ pool.ready > 0
    /\ pool.left = 0
    /\ pool' = [pool EXCEPT !.ready = @ - 1, !.done = @ + 1]
    /\ WideUnchanged

\* A ready worker claims a (UDP) task and hands it to the pool.
WideWorkerClaimUdp ==
    /\ phase = "wide_gather"
    /\ pool.ready > 0
    /\ pool.left > 0
    /\ pool' = [pool EXCEPT !.ready = @ - 1, !.left = @ - 1, !.queued = @ + 1]
    /\ WideUnchanged

\* A pool thread takes a work item and runs it up to the blocking recv.
WideUdpThreadStart ==
    /\ pool.queued > 0
    /\ PoolHasFreeThread(pool.running)
    /\ pool' = [pool EXCEPT !.queued = @ - 1, !.running = @ + 1]
    /\ WideUnchanged

\* The reply arrives: udp_probe_sync returns, the future is done.
WideUdpRecvDone ==
    /\ pool.running > 0
    /\ pool' = [pool EXCEPT !.running = @ - 1, !.finished = @ + 1]
    /\ WideUnchanged

\* The loop, between callbacks, resumes a worker whose future is done: it
\* appends its record and is at get_nowait again.
WideWorkerResumeUdp ==
    /\ phase = "wide_gather"
    /\ pool.ready = 0
    /\ pool.finished > 0
    /\ pool' = [pool EXCEPT !.finished = @ - 1, !.ready = @ + 1]
    /\ WideUnchanged

\* Every worker has returned: gather and run_checks return.
WideGatherReturn ==
    /\ phase = "wide_gather"
    /\ pool.done = pool.workers
    /\ phase' = "wide_returned"
    /\ UNCHANGED <<portspec, hosts, ports, proto, concurrency, bind_ip, tasks_tuples, q,
                   results, nworkers, pc, cur, probe, rsock, hsock, fut, faults,
                   budget, pool>>

NextWide ==
    \/ WideRunChecks
    \/ WideWorkerExit
    \/ WideWorkerClaimUdp
    \/ WideUdpThreadStart
    \/ WideUdpRecvDone
    \/ WideWorkerResumeUdp
    \/ WideGatherReturn

\* The runs of Spec together with the wide runs.
SpecWide == (Init \/ InitWide) /\ [][Next \/ NextWide]_vars

\* ================================================================== claims
Ended == phase \in {"returned", "raised"}
RecordsOf(i) == {k \in DOMAIN results : results[k].task = i}
HostOf(i) == tasks_tuples[i][1]
WaitingUdp(w) == pc[w] \in {"udp_queued", "udp_recv", "udp_done"}
Pending(pr) == \E k \in DOMAIN q : q[k][3] = pr
\* Task i has left the queue; some worker holds it (its probe has not
\* returned to the worker yet).
Claimed(i) == i < NextIndex
Held(i) == \E w \in Workers : cur[w] = i

\* C1: for every task list of make_tasks and every positive concurrency,
\* run_checks ends by returning a result list that holds exactly one record
\* per task (same index, port and protocol), so 2*|H|*|P| records for
\* 'both': nothing is dropped, nothing is recorded twice.
C1_OneRecordPerTask ==
    (concurrency >= 1 /\ Ended) =>
        /\ phase = "returned"
        /\ Len(results) = Len(tasks_tuples)
        /\ \A i \in DOMAIN tasks_tuples :
              /\ Cardinality(RecordsOf(i)) = 1
              /\ \A k \in RecordsOf(i) :
                    /\ results[k].port = tasks_tuples[i][2]
                    /\ results[k].proto = tasks_tuples[i][3]
        /\ proto = "both" => Len(results) = 2 * Len(hosts) * Len(ports)

\* C2: no failure of a probe leaves run_checks: no worker ends with an
\* exception and the run never ends by raising.
C2_NoFailurePropagates ==
    /\ phase # "raised"
    /\ \A w \in Workers : pc[w] # "raised"

\* C3: at most `concurrency` TCP probes are in flight (none when concurrency
\* is not positive) and at most 100 UDP probes run on the thread pool, in
\* the runs of Spec and in the wide runs, where more than 100 workers hold
\* a UDP task.
C3_ConcurrencyBound ==
    /\ concurrency >= 1 => TcpInFlight <= concurrency
    /\ concurrency < 1 => TcpInFlight = 0
    /\ UdpInFlight <= UdpMaxWorkers
    /\ pool.running <= UdpMaxWorkers
    /\ pool.queued + pool.running + pool.finished <= Max(concurrency, 0)

\* The pool is full and a claimed UDP task waits for a thread.
C3_Witness ==
    /\ pool.running = UdpMaxWorkers
    /\ pool.queued > 0

\* As many TCP probes in flight as concurrency allows, with tasks waiting.
C3_WitnessTcp ==
    /\ concurrency = MaxConcurrency
    /\ TcpInFlight = concurrency
    /\ q # <<>>

\* C4: make_tasks lists the tasks host-major, port-minor, for 'both' TCP
\* then UDP for each pair and otherwise one task of the protocol per pair,
\* a host listed k times giving k copies; hosts and ports are not changed.
ExpectedTask(i) ==
    LET k == IF proto = "both" THEN 2 ELSE 1
        np == Len(ports)
        hi == ((i - 1) \div (k * np)) + 1
        pi == (((i - 1) \div k) % np) + 1
        pr == IF proto # "both" THEN proto
              ELSE IF (i - 1) % 2 = 0 THEN "tcp" ELSE "udp"
    IN <<hosts[hi], ports[pi], pr>>

C4_MakeTasksOrder ==
    /\ [](phase # "main" =>
            /\ Len(tasks_tuples) =
                 (IF proto = "both" THEN 2 ELSE 1) * Len(hosts) * Len(ports)
            /\ \A i \in DOMAIN tasks_tuples : tasks_tuples[i] = ExpectedTask(i))
    /\ [][hosts' = hosts /\ ports' = ports]_vars

C4_Witness ==
    /\ phase # "main"
    /\ proto = "both"
    /\ Len(hosts) = 2
    /\ hosts[1] = hosts[2]
    /\ ports = <<2, 1>>
    /\ Len(tasks_tuples) = 8

\* C5: when a probe has returned, every socket it opened is closed, the
\* socket of local_ip_for_target included.
C5_SocketsClosedAtReturn ==
    \A w \in Workers :
        pc[w] \in {"ready", "done", "udp_done", "raised"} =>
            /\ rsock[w] # "open"
            /\ hsock[w] # "open"

\* C6: tcp_check gives one status per probe (a TCP task that a worker has
\* claimed and no longer holds has exactly one record), fixed by the
\* connect: open for an established connection and for nothing else, closed
\* for a refusal, timeout for no answer in time, error for any other
\* failure; never no-response.
C6_TcpClassification ==
    /\ \A k \in DOMAIN results :
          results[k].proto = "tcp" =>
              /\ results[k].status \in {"open", "closed", "timeout", "error"}
              /\ results[k].status = "open" <=> results[k].cause = "established"
              /\ results[k].cause = "refused" => results[k].status = "closed"
              /\ results[k].cause = "timeout" => results[k].status = "timeout"
              /\ results[k].cause \in {"oserror", "exception", "nosocket"} =>
                     results[k].status = "error"
    /\ \A i \in DOMAIN tasks_tuples :
          tasks_tuples[i][3] = "tcp" =>
              /\ Cardinality(RecordsOf(i)) <= 1
              /\ (Claimed(i) /\ ~Held(i)) => Cardinality(RecordsOf(i)) = 1

C6_Witness ==
    \E k \in DOMAIN results :
        /\ results[k].proto = "tcp"
        /\ results[k].cause = "refused"
        /\ results[k].status = "closed"

\* C7: udp_probe_sync ends every UDP probe with exactly one of open (a reply
\* was received, and only then), no-response (nothing arrived in time) and
\* error (the network stack reported a failure); never closed or timeout.
C7_UdpAlwaysClassified ==
    \A w \in Workers :
        (pc[w] \in {"udp_done", "raised"} /\ tasks_tuples[cur[w]][3] = "udp") =>
            /\ fut[w].kind = "ok"
            /\ fut[w].status \in {"open", "no-response", "error"}
            /\ fut[w].status = "open" <=> fut[w].cause = "data"
            /\ fut[w].cause = "timeout" => fut[w].status = "no-response"

C9_ConfigErrorAborts ==
    (hosts = <<>> \/ ports = <<>>) =>
        /\ nworkers = 0
        /\ phase # "returned"

\* C10: a failed resolution aborts no task, TCP or UDP: the probe goes on
\* with the host string as destination and its record has dst equal to that
\* string; after a successful resolution dst is the resolved address.
C10_ResolutionFallback ==
    /\ \A k \in DOMAIN results :
          /\ results[k].dns = "fail" => results[k].dst = HostOf(results[k].task)
          /\ results[k].dns = "ok" =>
                /\ results[k].dst = Addr(HostOf(results[k].task))
                /\ results[k].dst # HostOf(results[k].task)
    /\ \A w \in Workers : fut[w].kind = "exc" => fut[w].dns # "fail"

\* run_checks has been entered (the runs of the worker pool).
Entered == phase \in {"gather", "returned", "raised"}
StatusOf(pr, cause) == IF pr = "tcp" THEN TcpStatus(cause) ELSE UdpStatus(cause)
BindFailed ==
    \/ \E k \in DOMAIN results : results[k].bind = "failed"
    \/ \E w \in Workers : fut[w].bind = "failed" \/ probe[w].bind = "failed"

\* C11: a bind that fails is passed over and the probe goes on with the
\* unbound socket: its status is the classification of what the connect or
\* the recv did, as with no bind address; no probe whose bind failed ends
\* with an exception; and a run in which a bind failed ends by returning
\* one record per task.
C11_BindFailureSwallowed ==
    /\ \A k \in DOMAIN results :
          results[k].bind = "failed" =>
              results[k].status = StatusOf(results[k].proto, results[k].cause)
    /\ \A w \in Workers : fut[w].bind = "failed" => fut[w].kind # "exc"
    /\ (Ended /\ BindFailed) =>
          /\ phase = "returned"
          /\ \A i \in DOMAIN tasks_tuples : Cardinality(RecordsOf(i)) = 1

\* C12: for every TCP probe, whatever its outcome, src is never empty and
\* follows the chain: the socket is asked for its local endpoint first
\* (whenever there is a socket) and its answer is src; only when it cannot
\* answer is src the bind address; with no bind address, the address the
\* UDP-connect heuristic finds; and 'unknown' only when that fails too.
C12_TcpSourceChain ==
    \A k \in DOMAIN results :
        results[k].proto = "tcp" =>
            /\ results[k].src # ""
            /\ results[k].cause # "nosocket" => results[k].name # "skipped"
            /\ results[k].name = "ok" =>
                  /\ results[k].via = "sockname"
                  /\ results[k].src = SockName(bind_ip, results[k].bind = "bound")
            /\ results[k].name # "ok" =>
                  /\ bind_ip # NoBind =>
                        results[k].via = "bind" /\ results[k].src = bind_ip
                  /\ bind_ip = NoBind =>
                        \/ results[k].via = "heuristic" /\ results[k].src = DefaultLocal
                        \/ results[k].via = "unknown" /\ results[k].src = Unknown

\* C13: for a positive concurrency run_checks ends only by returning, with
\* the backlog empty, every worker returned and no task held; and a worker
\* has ended only when the backlog is empty.
C13_ReturnsWhenDrained ==
    concurrency >= 1 =>
        /\ Ended =>
              /\ phase = "returned"
              /\ q = <<>>
              /\ \A w \in Workers : pc[w] = "done" /\ cur[w] = 0
        /\ \A w \in Workers : pc[w] \in {"done", "raised"} => q = <<>>

\* C14: the elapsed time of every record, whatever the outcome, is at least
\* 0 and at most the timeout plus the tolerance.
C14_ElapsedBounded ==
    \A k \in DOMAIN results :
        /\ results[k].elapsed >= 0
        /\ results[k].elapsed <= Timeout + Tolerance

\* C15: when parse_ports returns, its result has no repeated port, holds
\* exactly the ports the parts of the string name (every port of a..b for a
\* part 'a-b', the port itself for a single one), and lists them in the
\* order of their first occurrence; '9,10-12' gives [9, 10, 11, 12].
HasDash(part) == \E i \in DOMAIN part : part[i] = "-"
Named(part) ==
    IF HasDash(part)
    THEN int(SplitFirst(part, "-")[1]).v..int(SplitFirst(part, "-")[2]).v
    ELSE {int(part).v}
FirstPart(p) ==
    CHOOSE k \in DOMAIN Parts(portspec) :
        /\ p \in Named(Parts(portspec)[k])
        /\ \A j \in 1..(k - 1) : p \notin Named(Parts(portspec)[j])

C15_ParsePorts ==
    phase = "main" =>
        /\ NoDup(ports)
        /\ {ports[i] : i \in DOMAIN ports} =
              UNION {Named(Parts(portspec)[k]) : k \in DOMAIN Parts(portspec)}
        /\ \A i, j \in DOMAIN ports :
              i < j =>
                  \/ FirstPart(ports[i]) < FirstPart(ports[j])
                  \/ /\ FirstPart(ports[i]) = FirstPart(ports[j])
                     /\ ports[i] < ports[j]
        /\ portspec = <<"9", ",", "1", "0", "-", "1", "2">> => ports = <<9, 10, 11, 12>>

\* A range that repeats a port already listed: '2,1-2' gives [2, 1].
C15_Witness ==
    /\ phase = "main"
    /\ portspec = <<"2", ",", "1", "-", "2">>
    /\ ports = <<2, 1>>

\* C16 as claimed: for a positive concurrency run_checks starts
\* min(concurrency, len(tasks)) workers, for the empty task list too.
C16_WorkersMinOfTasks ==
    (Entered /\ concurrency >= 1) =>
        nworkers = Min(concurrency, Len(tasks_tuples))

\* C16 as amended: run_checks starts min(concurrency, len(tasks)) workers
\* for a task list that is not empty and one worker for the empty one,
\* which claims nothing; none when concurrency is not positive.
C16_WorkersOneForNoTask ==
    Entered =>
        /\ nworkers = IF concurrency < 1 THEN 0
                      ELSE IF tasks_tuples = <<>> THEN 1
                      ELSE Min(concurrency, Len(tasks_tuples))
        /\ tasks_tuples = <<>> =>
              /\ results = <<>>
              /\ \A w \in Workers : cur[w] = 0 /\ pc[w] \in {"ready", "done"}

C16_Witness ==
    /\ phase = "returned"
    /\ concurrency = MaxConcurrency
    /\ tasks_tuples = <<>>
    /\ nworkers = 1
    /\ pc[1] = "done"

\* C17: no two workers hold the same task; a task that is held, or that has
\* a record (whatever its status, error and timeout included), has left the
\* backlog, which is always the part of the task list not yet claimed: no
\* task is put back; and no task has more than one record.
C17_ClaimedOnce ==
    Entered =>
        /\ \A w, v \in Workers : (cur[w] # 0 /\ cur[w] = cur[v]) => w = v
        /\ \A w \in Workers : cur[w] # 0 => Claimed(cur[w])
        /\ NextIndex >= 1
        /\ q = SubSeq(tasks_tuples, NextIndex, Len(tasks_tuples))
        /\ \A i \in DOMAIN tasks_tuples : Cardinality(RecordsOf(i)) <= 1
        /\ \A k \in DOMAIN results :
              Claimed(results[k].task) /\ ~Held(results[k].task)

\* Two workers hold tasks after a probe has ended in error or timeout.
C17_Witness ==
    /\ phase = "gather"
    /\ \E k \in DOMAIN results : results[k].status \in {"error", "timeout"}
    /\ \E w, v \in Workers : w # v /\ cur[w] # 0 /\ cur[v] # 0

C19_NoWorkerNoProbe ==
    (Entered /\ concurrency <= 0) =>
        /\ nworkers = 0
        /\ results = <<>>
        /\ q = tasks_tuples
        /\ faults = 0
        /\ phase # "raised"
        /\ phase = "gather" => ENABLED GatherReturn

C19_Witness ==
    /\ phase = "returned"
    /\ concurrency <= 0
    /\ Len(q) >= 2
    /\ results = <<>>

\* C20: when a worker has ended with the exception of its probe (the
\* socket(), connect or send of udp_probe_sync), run_checks can raise as
\* soon as the loop is between callbacks, whatever the other workers are
\* doing, and it never returns a result list; when it has raised, a worker
\* ended with such an exception.
C20_ExceptionPropagates ==
    /\ (LoopIdle /\ \E w \in Workers : pc[w] = "raised") => ENABLED GatherRaise
    /\ (\E w \in Workers : pc[w] = "raised") => phase # "returned"
    /\ phase = "raised" =>
          \E w \in Workers :
              /\ pc[w] = "raised"
              /\ fut[w].kind = "exc"
              /\ fut[w].cause \in {"socket", "connect", "send"}
    /\ \A w \in Workers : pc[w] = "raised" => fut[w].kind = "exc"

\* run_checks has raised with a record in results, a task in the backlog
\* and another worker's probe in flight.
C20_Witness ==
    /\ phase = "raised"
    /\ results # <<>>
    /\ q # <<>>
    /\ \E w \in Workers : pc[w] \in {"tcp_connect", "udp_queued", "udp_recv"}

====
